---- MODULE Spec2Model ----
(***************************************************************************)
(* Model of the article store of typed (the bolt-backed server): the       *)
(* "articles" bucket and its sequence, and the request handlers            *)
(* newHandler, aHandler and editHandler wrapped by errorHandler.           *)
(*                                                                         *)
(* Every request is served by its own goroutine, and any number of them    *)
(* may run at once.  A handler touches the store only inside boltdb.View   *)
(* and boltdb.Update; bolt runs one writable transaction at a time and     *)
(* commits it atomically or not at all (a failed commit rolls back the     *)
(* bucket and its sequence), so each transaction together with the         *)
(* handler-local code around it is one step.                               *)
(* The POST branch of editHandler makes two transactions (a View inside    *)
(* getArticleByID, then an Update) and is therefore two steps, between     *)
(* which other requests may run; the local code between the two (password  *)
(* check, gzip, ETag += 1) is part of the first step, so a goroutine that  *)
(* waits for its Update holds the record it is about to write.  The        *)
(* goroutines between the two transactions are kept as a bag of their      *)
(* locals; every other request is a single step of a goroutine of its own. *)
(*                                                                         *)
(* newHandler reads its form through http.MaxBytesReader(postLimit); a     *)
(* request is given by its form fields, and the length of its body is the  *)
(* length of the form that carries them.                                   *)
(*                                                                         *)
(* Spec is the program over a store that keeps what was written.           *)
(* SpecDamaged is the creates and the read paths over a store in which a   *)
(* compressed Markdown can stop being a gzip stream.                       *)
(*                                                                         *)
(* Strings are TLA+ strings; a body of n bytes is a string of length n.    *)
(* ETag and ID are uint64 in the source; the bounds below keep them far    *)
(* from 2^64, so the wrap-around is not modelled.                          *)
(***************************************************************************)
EXTENDS Integers, Sequences, FiniteSets, Bags, TLC

VARIABLES
    articles,   \* the "articles" bucket: key (decimal string) -> gob value
    sequence,   \* the bucket's sequence, read and set by NextSequence
    inflight,   \* bag of the locals of the edit POSTs waiting for their Update
    resp,       \* the response written for the request that completed last
    returned,   \* history: the IDs successful creates redirected to, in order
    created,    \* history: per ID, the form fields its create read from r.PostForm
    updated     \* history: the IDs an edit has been committed for

vars == <<articles, sequence, inflight, resp, returned, created, updated>>

-----------------------------------------------------------------------------
(* Bounds *)

MaxInFlight == 2
MaxArticles == 2
MaxRevision == 2

(* Program constants *)

gzipThreshold == 200
postLimit == 30000

-----------------------------------------------------------------------------
(* Inputs *)

RECURSIVE Rep(_, _)
Rep(s, n) ==
    IF n = 0 THEN ""
    ELSE IF n = 1 THEN s
    ELSE Rep(s, n \div 2) \o Rep(s, n - (n \div 2))

\* a body below the gzip threshold and one of exactly gzipThreshold bytes
BodyBye == "# Bye"
BodyAt == Rep("b", gzipThreshold)

Bodies == {BodyBye, BodyAt}

\* a body that alone fills postLimit bytes, so that the form carrying it is
\* larger than postLimit
BodyOver == Rep("c", postLimit)

\* the bodies sent to newHandler
NewBodies == Bodies \cup {BodyOver}

NewPasswords == {"", "p1"}
EditPasswords == {"", "p1", "wrong"}

\* values uuid.NewV4().String() may return
Uuids == {"6ba7b810-9dad-41d1-80b4-00c04fd430c8",
          "6ba7b811-9dad-41d1-80b4-00c04fd430c8"}

-----------------------------------------------------------------------------
(* fmt.Sprint and strconv.ParseUint on uint64 *)

DigitChars == "0123456789"

Digit(d) == SubSeq(DigitChars, d + 1, d + 1)

RECURSIVE Sprint(_)
Sprint(n) == IF n < 10 THEN Digit(n) ELSE Sprint(n \div 10) \o Digit(n % 10)

IsDigit(c) == \E d \in 0..9 : Digit(d) = c

DigitVal(c) == CHOOSE d \in 0..9 : Digit(d) = c

RECURSIVE ParseDigits(_, _)
ParseDigits(s, acc) ==
    IF s = "" THEN acc
    ELSE ParseDigits(SubSeq(s, 2, Len(s)), acc * 10 + DigitVal(SubSeq(s, 1, 1)))

ParseUint(s) ==
    IF s # "" /\ \A i \in 1..Len(s) : IsDigit(SubSeq(s, i, i))
    THEN [ok |-> TRUE, n |-> ParseDigits(s, 0)]
    ELSE [ok |-> FALSE, n |-> 0]

\* the part of the URL path after "/a/" or "/edit/": empty, not a number,
\* or an ID; MaxArticles + 1 is an ID no create reaches
IdStrs == {"", "x"} \cup {Sprint(i) : i \in 1..(MaxArticles + 1)}

\* the IDs edit POST requests are sent for: the first article and an ID
\* without a record (the handler treats every ID alike)
EditIdStrs == {"", "x", Sprint(1), Sprint(MaxArticles + 1)}

-----------------------------------------------------------------------------
(* Article and its gob encoding *)

ZeroArticle ==
    [ID |-> 0, Password |-> "", Salt |-> "", Markdown |-> "",
     Gziped |-> FALSE, ETag |-> 0]

\* gob transmits only the fields that differ from their zero value
GobEncode(a) ==
    [f \in {g \in DOMAIN ZeroArticle : a[g] # ZeroArticle[g]} |-> a[f]]

\* decoding into a fresh Article leaves the fields not transmitted at zero
GobDecode(v) ==
    [f \in DOMAIN ZeroArticle |-> IF f \in DOMAIN v THEN v[f] ELSE ZeroArticle[f]]

AbsPath(a) == "/a/" \o Sprint(a.ID)

-----------------------------------------------------------------------------
(* gzip: a stream is a header followed by the deflated text.  The deflate  *)
(* payload is kept as the text itself; the header makes the stream differ  *)
(* from the text and lets the reader reject anything that is not a stream. *)

GzipHeader == "\\x1f\\x8b"

GzipWrite(m) == GzipHeader \o m

GzipRead(s) ==
    IF Len(s) >= Len(GzipHeader) /\ SubSeq(s, 1, Len(GzipHeader)) = GzipHeader
    THEN [err |-> "nil", text |-> SubSeq(s, Len(GzipHeader) + 1, Len(s))]
    ELSE [err |-> "gzip: invalid header", text |-> ""]

\* a threshold test that leaves a body of exactly gzipThreshold bytes raw
EncodeAbove(m) ==
    IF Len(m) > gzipThreshold
    THEN [Markdown |-> GzipWrite(m), Gziped |-> TRUE]
    ELSE [Markdown |-> m, Gziped |-> FALSE]

\* the body as the handlers store it: <<Markdown, Gziped>>
Encode(m) ==
    IF Len(m) >= gzipThreshold
    THEN [Markdown |-> GzipWrite(m), Gziped |-> TRUE]
    ELSE [Markdown |-> m, Gziped |-> FALSE]

-----------------------------------------------------------------------------
(* hashPassword; sha512 is taken to be collision free, so the hex digest   *)
(* is modelled by a non-empty string that determines the hashed bytes.     *)

Sha512Hex(s) == "sha512(" \o s \o ")"

hashPassword(p, salt) == IF p = "" THEN "" ELSE Sha512Hex(p \o salt)

-----------------------------------------------------------------------------
(* bolt bucket operations *)

Get(b, k) == IF k \in DOMAIN b THEN [nil |-> FALSE, v |-> b[k]]
             ELSE [nil |-> TRUE, v |-> GobEncode(ZeroArticle)]

\* a Put that leaves a record in place whose ETag is not below the new one's
PutKeepNewer(b, k, v) ==
    IF k \in DOMAIN b /\ GobDecode(b[k]).ETag >= GobDecode(v).ETag
    THEN b
    ELSE [x \in (DOMAIN b) \cup {k} |-> IF x = k THEN v ELSE b[x]]

Put(b, k, v) == [x \in (DOMAIN b) \cup {k} |-> IF x = k THEN v ELSE b[x]]

\* a failed transaction that keeps the sequence it had reached
RollbackSequenceKept(before, reached) == reached

\* db.Update whose function returned an error, or whose commit failed: the
\* transaction is rolled back, and the bucket's sequence is part of it
RollbackSequence(before, reached) == before

\* a failed transaction that leaves its Put in the bucket
RollbackBucketKept(before, reached) == reached

\* the bucket after a rolled-back transaction
RollbackBucket(before, reached) == before

\* a sequence that hands out its first value every time
NextSequenceRestarted(seq) == 1

\* a sequence whose increment is not stored once it has started
NextSequenceStuck(seq) == IF seq = 0 THEN 1 ELSE seq

NextSequence(seq) == seq + 1

notFound == "not found"

\* a getArticleByID that hands out the Markdown as stored
getArticleByIDNoGunzip(b, id) ==
    LET g == Get(b, Sprint(id)) IN
    IF g.nil THEN [err |-> notFound, a |-> ZeroArticle]
    ELSE [err |-> "nil", a |-> [GobDecode(g.v) EXCEPT !.Gziped = FALSE, !.ID = id]]

\* a getArticleByID without the v == nil test: the decoder fails on no input
getArticleByIDNoNilTest(b, id) ==
    LET g == Get(b, Sprint(id)) IN
    IF g.nil THEN [err |-> "EOF", a |-> ZeroArticle]
    ELSE LET a == GobDecode(g.v) IN
         IF a.Gziped
         THEN [err |-> "nil",
               a |-> [a EXCEPT !.Markdown = GzipRead(a.Markdown).text,
                               !.Gziped = FALSE, !.ID = id]]
         ELSE [err |-> "nil", a |-> [a EXCEPT !.ID = id]]

\* a getArticleByID that hands out an empty body when the gzip reader fails
getArticleByIDGzipErrorDropped(b, id) ==
    LET g == Get(b, Sprint(id)) IN
    IF g.nil THEN [err |-> notFound, a |-> ZeroArticle]
    ELSE LET a == GobDecode(g.v) IN
         IF a.Gziped
         THEN [err |-> "nil",
               a |-> [a EXCEPT !.Markdown = GzipRead(a.Markdown).text,
                               !.Gziped = FALSE, !.ID = id]]
         ELSE [err |-> "nil", a |-> [a EXCEPT !.ID = id]]

getArticleByID(b, id) ==
    LET g == Get(b, Sprint(id)) IN
    IF g.nil THEN [err |-> notFound, a |-> ZeroArticle]
    ELSE LET a == GobDecode(g.v) IN
         IF a.Gziped
         THEN LET gz == GzipRead(a.Markdown) IN
              IF gz.err # "nil" THEN [err |-> gz.err, a |-> a]
              ELSE [err |-> "nil",
                    a |-> [a EXCEPT !.Markdown = gz.text, !.Gziped = FALSE, !.ID = id]]
         ELSE [err |-> "nil", a |-> [a EXCEPT !.ID = id]]

\* a getArticleByID that stores the record back as it returns it
BucketAfterGetDecoded(b, id) ==
    LET g == getArticleByID(b, id) IN
    IF g.err = "nil" THEN Put(b, Sprint(id), GobEncode(g.a)) ELSE b

\* the bucket after getArticleByID(id): its transaction is a boltdb.View,
\* in which only Bucket.Get is called
BucketAfterGet(b, id) == b

-----------------------------------------------------------------------------
(* errorHandler: the status written for a handler's NetError code *)

errorHandler(code) ==
    IF code = 404 THEN 404
    ELSE IF code = 401 THEN 401
    ELSE IF code = 304 THEN 304
    ELSE 500

\* The request a response answers: the handler and method, the part of the
\* path after the handler's prefix, the newpassword form field, whether its
\* body is longer than postLimit, and the If-None-Match header ("" when
\* absent) and Cache-Control header lines isCached read from it (none when
\* the handler returned without calling isCached).
Request(op, idstr, newpassword) ==
    [op |-> op, idstr |-> idstr, newpassword |-> newpassword, toolarge |-> FALSE,
     ifNoneMatch |-> "", cacheControl |-> {}]

\* The response: the status, the Location of a redirect, the article given
\* to the template (on 200), the ETag header; id is the ID the handler's
\* Article a held when it answered (0 when the response carries no article);
\* replaced is the ETag of the record an edit's Put replaced (0 otherwise);
\* the fields of the request are repeated in it.
Response(req, status, loc, a, etag) ==
    [op |-> req.op, idstr |-> req.idstr, newpassword |-> req.newpassword,
     toolarge |-> req.toolarge, ifNoneMatch |-> req.ifNoneMatch,
     cacheControl |-> req.cacheControl, status |-> status, loc |-> loc,
     a |-> a, etag |-> etag, id |-> a.ID, replaced |-> 0]

\* a handler returned &NetError{code, ...}
Error(req, code) == Response(req, errorHandler(code), "", ZeroArticle, "")

\* http.Redirect
Redirect(req, loc, status) == Response(req, status, loc, ZeroArticle, "")

NoResponse == Response(Request("none", "", ""), 0, "", ZeroArticle, "")

\* A goroutine's locals between the two transactions of an edit POST: the
\* Article a, the form fields, and the ETag getArticleByID returned.
Locals(a, newbody, newpassword, read) ==
    [a |-> a, newbody |-> newbody, newpassword |-> newpassword, read |-> read]

-----------------------------------------------------------------------------
Init ==
    /\ articles = <<>>
    /\ sequence = 0
    /\ inflight = EmptyBag
    /\ resp = NoResponse
    /\ returned = <<>>
    /\ created = <<>>
    /\ updated = {}

-----------------------------------------------------------------------------
(* newHandler, POST *)

\* a salt generated for every new article
NewSaltAlways(newpassword, uuid) == uuid

\* the salt of a new article: generated only when a password was sent
NewSalt(newpassword, uuid) == IF newpassword # "" THEN uuid ELSE ""

NewArticle(newpassword, newbody, uuid) ==
    LET s == NewSalt(newpassword, uuid)
        p == IF newpassword # "" THEN hashPassword(newpassword, s) ELSE ""
        e == Encode(newbody)
    IN  [ID |-> 0, Password |-> p, Salt |-> s, Markdown |-> e.Markdown,
         Gziped |-> e.Gziped, ETag |-> 0]

\* the length of the request body that carries the two form fields (the
\* bodies sent contain no byte that the form encoding escapes)
FormLen(newpassword, newbody) ==
    Len("newpassword=") + Len(newpassword) + Len("&newbody=") + Len(newbody)

\* r.PostForm after r.ParseForm() on a body wrapped in
\* http.MaxBytesReader(w, r.Body, postLimit): reading more than postLimit
\* bytes fails, ParseForm returns that error without having parsed a field
\* and leaves r.PostForm empty; the handler does not look at the error
ParseForm(newpassword, newbody) ==
    IF FormLen(newpassword, newbody) > postLimit
    THEN [newbody |-> "", newpassword |-> ""]
    ELSE [newbody |-> newbody, newpassword |-> newpassword]

newHandlerPost ==
    /\ sequence < MaxArticles
    /\ \E newpassword \in NewPasswords, newbody \in NewBodies, uuid \in Uuids,
          commit \in BOOLEAN :
         LET form == ParseForm(newpassword, newbody)
             req == [Request("new", "", newpassword)
                       EXCEPT !.toolarge = FormLen(newpassword, newbody) > postLimit]
             id == NextSequence(sequence)
             a == [NewArticle(form.newpassword, form.newbody, uuid) EXCEPT !.ID = id]
             put == Put(articles, Sprint(a.ID), GobEncode(a))
         IN  IF commit
             THEN /\ articles' = put
                  /\ sequence' = id
                  /\ resp' = [Redirect(req, AbsPath(a), 303) EXCEPT !.id = a.ID]
                  /\ returned' = Append(returned, a.ID)
                  /\ created' = Put(created, a.ID, form)
             ELSE \* enc.Encode, b.Put or the commit failed
                  /\ articles' = RollbackBucket(articles, put)
                  /\ sequence' = RollbackSequence(sequence, id)
                  /\ resp' = [Error(req, 500) EXCEPT !.id = a.ID]
                  /\ UNCHANGED <<returned, created>>
    /\ UNCHANGED <<inflight, updated>>

-----------------------------------------------------------------------------
(* aHandler *)

aHandler ==
    /\ \E idstr \in IdStrs :
         LET req == Request("a", idstr, "")
             id == ParseUint(idstr)
             g == getArticleByID(articles, id.n)
         IN /\ resp' =
               IF idstr = "" THEN Redirect(req, "/", 301)
               ELSE IF ~id.ok THEN Error(req, 404)
               ELSE IF g.err # "nil"
                    THEN IF g.err = notFound THEN Error(req, 404) ELSE Error(req, 500)
               ELSE Response(req, 200, "", g.a, "")
            /\ articles' = IF idstr = "" \/ ~id.ok THEN articles
                           ELSE BucketAfterGet(articles, id.n)
    /\ UNCHANGED <<sequence, inflight, returned, created, updated>>

-----------------------------------------------------------------------------
(* editHandler, GET *)

TrimPrefix(s, prefix) ==
    IF Len(s) >= Len(prefix) /\ SubSeq(s, 1, Len(prefix)) = prefix
    THEN SubSeq(s, Len(prefix) + 1, Len(s))
    ELSE s

\* fmt.Sprintf(`"%d"`, a.ETag)
QuotedETag(a) == "\"" \o Sprint(a.ETag) \o "\""

\* an isCached that does not look at Cache-Control
isCachedNoCacheControl(cacheControl, ifNoneMatch, a) ==
    TrimPrefix(ifNoneMatch, "W/") = QuotedETag(a)

isCached(cacheControl, ifNoneMatch, a) ==
    IF "max-age=0" \in cacheControl THEN FALSE
    ELSE TrimPrefix(ifNoneMatch, "W/") = QuotedETag(a)

\* values of the request's If-None-Match header ("" when absent)
IfNoneMatches == {"", "\"0\"", "W/\"1\""}

\* values of the request's Cache-Control header lines
CacheControls == {{}, {"max-age=0"}}

editHandlerGet ==
    /\ \E idstr \in IdStrs, inm \in IfNoneMatches, cc \in CacheControls :
         LET req == Request("editGet", idstr, "")
             reqc == [req EXCEPT !.ifNoneMatch = inm, !.cacheControl = cc]
             id == ParseUint(idstr)
             g == getArticleByID(articles, id.n)
         IN /\ resp' =
               IF idstr = "" THEN Redirect(req, "/", 301)
               ELSE IF ~id.ok THEN Error(req, 404)
               ELSE IF g.err # "nil"
                    THEN IF g.err = notFound THEN Error(req, 404) ELSE Error(req, 500)
               ELSE IF isCached(cc, inm, g.a)
                    THEN Response(reqc, errorHandler(304), "", ZeroArticle, QuotedETag(g.a))
               ELSE Response(reqc, 200, "", g.a, QuotedETag(g.a))
            /\ articles' = IF idstr = "" \/ ~id.ok THEN articles
                           ELSE BucketAfterGet(articles, id.n)
    /\ UNCHANGED <<sequence, inflight, returned, created, updated>>

-----------------------------------------------------------------------------
(* editHandler, POST *)

\* a check that only asks for the article to have a password
AuthorizedAnyPassword(a, newpassword) == a.Password # ""

\* a check without the a.Password == "" test
AuthorizedNoEmptyTest(a, newpassword) == hashPassword(newpassword, a.Salt) = a.Password

\* the password check: FALSE is the 401 branch
Authorized(a, newpassword) ==
    ~(a.Password = "" \/ hashPassword(newpassword, a.Salt) # a.Password)

\* a write-back that forgets a.ETag += 1
EditedSameETag(a, newbody) ==
    LET e == Encode(newbody)
    IN  [a EXCEPT !.Markdown = e.Markdown, !.Gziped = e.Gziped]

\* a write-back built from a fresh Article instead of the one read
EditedFresh(a, newbody) ==
    LET e == Encode(newbody)
    IN  [ZeroArticle EXCEPT !.ID = a.ID, !.Markdown = e.Markdown, !.Gziped = e.Gziped,
                            !.ETag = a.ETag + 1]

\* the record the handler writes back
Edited(a, newbody) ==
    LET e == Encode(newbody)
    IN  [a EXCEPT !.Markdown = e.Markdown, !.Gziped = e.Gziped, !.ETag = a.ETag + 1]

\* the NetError code for a failed getArticleByID
EditPostGetError(err) == 500

\* first transaction (View, inside getArticleByID) and the local code up to
\* the second
editHandlerPostGet ==
    /\ \E idstr \in EditIdStrs, newpassword \in EditPasswords, newbody \in Bodies :
         LET req == Request("editPost", idstr, newpassword)
             id == ParseUint(idstr)
             g == getArticleByID(articles, id.n)
         IN /\ IF idstr = ""
               THEN resp' = Redirect(req, "/", 301) /\ UNCHANGED inflight
               ELSE IF ~id.ok
               THEN resp' = Error(req, 500) /\ UNCHANGED inflight
               ELSE IF g.err # "nil"
               THEN resp' = Error(req, EditPostGetError(g.err)) /\ UNCHANGED inflight
               ELSE IF ~Authorized(g.a, newpassword)
               THEN resp' = Error(req, 401) /\ UNCHANGED inflight
               ELSE /\ g.a.ETag < MaxRevision
                    /\ BagCardinality(inflight) < MaxInFlight
                    /\ inflight' = inflight (+) SetToBag(
                           {Locals(Edited(g.a, newbody), newbody, newpassword, g.a.ETag)})
                    /\ UNCHANGED resp
            /\ articles' = IF idstr = "" \/ ~id.ok THEN articles
                           ELSE BucketAfterGet(articles, id.n)
    /\ UNCHANGED <<sequence, returned, created, updated>>

\* second transaction (Update) of the goroutine with locals t
editHandlerPostUpdate(t) ==
    /\ BagIn(t, inflight)
    /\ \E commit \in BOOLEAN :
         LET a == t.a
             req == Request("editPost", Sprint(a.ID), t.newpassword)
             put == Put(articles, Sprint(a.ID), GobEncode(a))
         IN  IF commit
             THEN /\ articles' = put
                  /\ resp' = [Redirect(req, AbsPath(a) \o "?etag=" \o Sprint(a.ETag), 303)
                                EXCEPT !.replaced = GobDecode(articles[Sprint(a.ID)]).ETag]
                  /\ updated' = updated \cup {a.ID}
             ELSE /\ articles' = RollbackBucket(articles, put)
                  /\ resp' = Error(req, 500)
                  /\ UNCHANGED updated
    /\ inflight' = inflight (-) SetToBag({t})
    /\ UNCHANGED <<sequence, returned, created>>

-----------------------------------------------------------------------------
Next ==
    \/ newHandlerPost
    \/ aHandler
    \/ editHandlerGet
    \/ editHandlerPostGet
    \/ \E t \in BagToSet(inflight) : editHandlerPostUpdate(t)

Spec == Init /\ [][Next]_vars

-----------------------------------------------------------------------------
(* The store with records that go bad: the file under the bucket is        *)
(* outside the program, and getArticleByID has error returns for a         *)
(* Markdown that gzip.NewReader or the read of the stream rejects.  This   *)
(* specification has the creates and the two read paths; what a get makes  *)
(* of a damaged record does not depend on the edits that went before.      *)

\* a gzip stream whose first byte was overwritten
Damaged(m) == "?" \o SubSeq(m, 2, Len(m))

\* the Markdown of a record flagged Gziped stops being a gzip stream
DamageRecord ==
    /\ \E k \in DOMAIN articles :
         LET a == GobDecode(articles[k])
         IN  /\ a.Gziped
             /\ GzipRead(a.Markdown).err = "nil"
             /\ articles' = Put(articles, k,
                                GobEncode([a EXCEPT !.Markdown = Damaged(a.Markdown)]))
    /\ UNCHANGED <<sequence, inflight, resp, returned, created, updated>>

NextDamaged ==
    \/ newHandlerPost
    \/ aHandler
    \/ editHandlerGet
    \/ DamageRecord

SpecDamaged == Init /\ [][NextDamaged]_vars

-----------------------------------------------------------------------------
(* Properties *)

\* the record stored under key k, and what a get of id returns
Stored(k) == GobDecode(articles[k])
get(id) == getArticleByID(articles, id)

\* the ID a response's request names, when its path suffix is a number
RespID == ParseUint(resp.idstr)

\* C1: no two successful creates ever return the same ID, however the
\* requests interleave.
C1_CreateIDsDistinct ==
    \A i, j \in 1..Len(returned) : i # j => returned[i] # returned[j]

C1_Witness == Len(returned) = MaxArticles /\ MaxArticles >= 2

\* C2: the Revision stored under an ID is never smaller in the next state
\* than in the current one, also when an update's read and write are
\* separated by other requests' writes.
C2_RevisionNeverDecreases ==
    [][\A k \in DOMAIN articles :
          GobDecode(articles'[k]).ETag >= GobDecode(articles[k]).ETag]_vars

\* C3: when an update's write commits while the stored Revision is still
\* the one the update read, a get of the article then returns that Revision
\* plus exactly 1 and the new body exactly.
C3_UpdateThenGet ==
    [][\A t \in BagToSet(inflight) :
          (/\ inflight' = inflight (-) SetToBag({t})
           /\ resp'.op = "editPost"
           /\ resp'.status = 303
           /\ get(t.a.ID).a.ETag = t.read)
          => LET g == getArticleByID(articles', t.a.ID)
             IN  /\ g.err = "nil"
                 /\ g.a.ETag = get(t.a.ID).a.ETag + 1
                 /\ g.a.Markdown = t.newbody
                 /\ g.a.Gziped = FALSE]_vars

\* an article created with the short body, read back at Revision 1 with the
\* body of gzipThreshold bytes
C3_Witness ==
    /\ resp.op = "a"
    /\ resp.status = 200
    /\ resp.a.ETag = 1
    /\ resp.a.Markdown = BodyAt
    /\ created[resp.a.ID].newbody = BodyBye
    /\ Stored(resp.idstr).Gziped

\* C4: an edit POST for a stored article that has a password, sent with a
\* password whose digest under the stored salt differs from the stored one,
\* is answered 401 and leaves the bucket as it was.
C4_WrongPassword ==
    [][(/\ resp'.op = "editPost"
        /\ ParseUint(resp'.idstr).ok
        /\ resp'.idstr \in DOMAIN articles
        /\ Stored(resp'.idstr).Password # ""
        /\ hashPassword(resp'.newpassword, Stored(resp'.idstr).Salt)
             # Stored(resp'.idstr).Password)
       => (resp'.status = 401 /\ articles' = articles)]_vars

C4_Witness ==
    /\ resp.op = "editPost"
    /\ resp.status = 401
    /\ resp.newpassword = "wrong"
    /\ resp.idstr \in DOMAIN articles
    /\ Stored(resp.idstr).Password # ""
    /\ Stored(resp.idstr).ETag = 1

\* C5: an article created with an empty password keeps its creation body and
\* Revision 0 in every reachable state, and every edit POST for it is
\* answered 401, whatever password is sent.
C5_NoPasswordNoEdit ==
    \A id \in DOMAIN created :
        created[id].newpassword = ""
        => /\ get(id).err = "nil"
           /\ get(id).a.Markdown = created[id].newbody
           /\ get(id).a.ETag = 0
           /\ (resp.op = "editPost" /\ RespID.ok /\ RespID.n = id) => resp.status = 401

\* the empty password was tried on an article created without one
C5_Witness ==
    /\ resp.op = "editPost"
    /\ resp.newpassword = ""
    /\ resp.status = 401
    /\ RespID.ok
    /\ RespID.n \in DOMAIN created
    /\ created[RespID.n].newpassword = ""

\* C6: a created article that no update has been committed for reads back
\* with its ID, exactly the body it was created with, Gziped false and
\* Revision 0, whether the body is stored raw or compressed.
C6_CreateThenGet ==
    \A id \in (DOMAIN created) \ updated :
        /\ get(id).err = "nil"
        /\ get(id).a.ID = id
        /\ get(id).a.Markdown = created[id].newbody
        /\ get(id).a.Gziped = FALSE
        /\ get(id).a.ETag = 0
        /\ Stored(Sprint(id)).Gziped = (Len(created[id].newbody) >= gzipThreshold)

\* aHandler rendered a never updated article whose body is stored compressed
C6_Witness ==
    /\ resp.op = "a"
    /\ resp.status = 200
    /\ resp.a.ID \notin updated
    /\ resp.a.Markdown = BodyAt
    /\ resp.a.ETag = 0
    /\ Stored(resp.idstr).Gziped
    /\ Stored(resp.idstr).Markdown # BodyAt

\* C7: a get by aHandler or by the GET branch of editHandler for an ID no
\* create has stored a record under is answered 404, never 500.
C7_NeverCreatedIsNotFound ==
    (/\ resp.op \in {"a", "editGet"}
     /\ RespID.ok
     /\ RespID.n \notin DOMAIN created)
    => resp.status = 404

C7_Witness ==
    /\ resp.op = "editGet"
    /\ RespID.ok
    /\ RespID.n \notin DOMAIN created
    /\ resp.status = 404
    /\ DOMAIN created # {}

\* C8: no step changes the ID, Salt or Password stored under a key, and no
\* step removes a key: they stay as the create wrote them across creates and
\* successful or failed updates.
C8_SaltAndDigestFixed ==
    [][\A k \in DOMAIN articles :
          /\ k \in DOMAIN articles'
          /\ GobDecode(articles'[k]).ID = Stored(k).ID
          /\ GobDecode(articles'[k]).Salt = Stored(k).Salt
          /\ GobDecode(articles'[k]).Password = Stored(k).Password]_vars

\* an update of an article with a salt and a digest has been committed
C8_Witness ==
    /\ resp.op = "editPost"
    /\ resp.status = 303
    /\ Stored(resp.idstr).Salt # ""
    /\ Stored(resp.idstr).Password = hashPassword("p1", Stored(resp.idstr).Salt)
    /\ Stored(resp.idstr).ETag = 2

\* C9: an edit POST for an ID without a stored record is answered 404, not
\* 401 and not 500, and writes nothing.
C9_EditPostAbsentIsNotFound ==
    (/\ resp.op = "editPost"
     /\ RespID.ok
     /\ resp.idstr \notin DOMAIN articles)
    => resp.status = 404

C11_FailedIDNeverReused ==
    [][(resp.op = "new" /\ resp.status = 500 /\ resp'.op = "new" /\ resp'.status = 303)
         => resp'.id > resp.id]_vars

\* C11 (amended): a failed create's allocation is rolled back with its
\* transaction: the sequence counts the successful creates only, these
\* returned 1, 2, ... without a gap, and the ID a failed create had been
\* assigned is the one the next create will be assigned.
C11_FailedAllocationRolledBack ==
    /\ sequence = Len(returned)
    /\ \A i \in 1..Len(returned) : returned[i] = i
    /\ (resp.op = "new" /\ resp.status = 500) => resp.id = NextSequence(sequence)

C11_Witness ==
    /\ resp.op = "new" /\ resp.status = 500
    /\ resp.id = 2 /\ returned = <<1>>

\* C12: a create whose transaction fails is answered 500 and leaves the
\* bucket exactly as it was; a get of the ID it had been assigned finds no
\* record.  A create that is answered differently has stored its record.
C12_FailedCreateLeavesNoState ==
    [][/\ (resp'.op = "new" /\ resp'.status = 500)
          => /\ articles' = articles
             /\ getArticleByID(articles', resp'.id).err = notFound
       /\ (resp'.op = "new" /\ resp' # resp /\ resp'.status # 500)
          => /\ resp'.status = 303
             /\ getArticleByID(articles', resp'.id).err = "nil"
             /\ articles' # articles]_vars

C12_Witness ==
    /\ resp.op = "new" /\ resp.status = 500
    /\ DOMAIN articles = {Sprint(1)}
    /\ get(resp.id).err = notFound
    /\ get(1).a.Markdown = BodyAt

\* C13: a create request whose body is longer than postLimit is rejected
\* before the store is reached: it is not answered with the redirect to a
\* new article, and it leaves the bucket and its sequence as they were.
C13_OversizedCreateRejected ==
    [][(resp'.op = "new" /\ resp'.toolarge /\ resp' # resp)
         => /\ resp'.status # 303
            /\ articles' = articles
            /\ sequence' = sequence]_vars

\* the validator derived from the Revision stored under the ID a response's
\* request names
CurrentValidator == QuotedETag(Stored(resp.idstr))

\* the GET branch of editHandler answered for an article that has a record
EditGetOfExisting ==
    /\ resp.op = "editGet"
    /\ RespID.ok
    /\ resp.idstr \in DOMAIN articles

\* the response is the rendered form of the stored article with its validator
FormRendered ==
    /\ resp.status = 200
    /\ resp.a = get(RespID.n).a
    /\ resp.etag = CurrentValidator

\* the response is the not-modified signal, without a form
NotModified ==
    /\ resp.status = 304
    /\ resp.a = ZeroArticle
    /\ resp.etag = CurrentValidator

\* C14 (as claimed): on the edit read path of an existing article, a request
\* whose If-None-Match (with or without the weak prefix W/) equals the
\* validator of the current Revision is answered 304 without the form, and
\* a request whose If-None-Match differs gets the form with the current
\* validator.
C14_NotModifiedIffMatch ==
    EditGetOfExisting =>
        IF TrimPrefix(resp.ifNoneMatch, "W/") = CurrentValidator
        THEN NotModified
        ELSE FormRendered

\* C14 (amended): the same, except that a request with a Cache-Control line
\* "max-age=0" always gets the form, also when its If-None-Match equals the
\* current validator.
C14_NotModifiedIffMatchAndNoMaxAge0 ==
    EditGetOfExisting =>
        IF /\ TrimPrefix(resp.ifNoneMatch, "W/") = CurrentValidator
           /\ "max-age=0" \notin resp.cacheControl
        THEN NotModified
        ELSE FormRendered

\* a weak validator of Revision 1 was answered 304, for an article whose
\* Revision an update has raised
C14_Witness ==
    /\ EditGetOfExisting
    /\ resp.ifNoneMatch = "W/\"1\""
    /\ Stored(resp.idstr).ETag = 1
    /\ NotModified

\* C15: a get is a read only: a request answered by aHandler or by the GET
\* branch of editHandler, for whatever ID, leaves every record of the bucket
\* as stored (Markdown bytes, Gziped, ETag, Salt, Password) and leaves the
\* sequence, also when the record it returns was decoded.
C15_GetIsPureRead ==
    [][resp'.op \in {"a", "editGet"}
         => (articles' = articles /\ sequence' = sequence)]_vars

\* the form of a compressed article was rendered with the decoded body,
\* and the record is still stored compressed
C15_Witness ==
    /\ resp.op = "editGet"
    /\ resp.status = 200
    /\ resp.a.Gziped = FALSE
    /\ resp.a.Markdown = BodyAt
    /\ Stored(resp.idstr).Gziped
    /\ Stored(resp.idstr).Markdown = GzipWrite(BodyAt)

\* C16: an update that read ETag r and whose Update transaction runs when
\* another update that had read r has already stored ETag r + 1 is not held
\* back: when it is answered 303 the bucket holds its body, and the stored
\* ETag is still r + 1, one above what both had read.
C16_LastWriteWins ==
    [][\A t \in BagToSet(inflight) :
          (/\ inflight' = inflight (-) SetToBag({t})
           /\ resp'.op = "editPost"
           /\ resp'.status = 303
           /\ Stored(Sprint(t.a.ID)).ETag = t.read + 1)
          => LET g == getArticleByID(articles', t.a.ID)
             IN  /\ g.err = "nil"
                 /\ g.a.Markdown = t.newbody
                 /\ g.a.ETag = t.read + 1
                 /\ resp'.replaced = g.a.ETag]_vars

\* two edits that both read ETag 0 were both answered 303: the body of the
\* one that wrote last is stored under ETag 1
C16_Witness ==
    /\ inflight = EmptyBag
    /\ resp.op = "editPost"
    /\ resp.status = 303
    /\ resp.loc = "/a/1?etag=1"
    /\ resp.replaced = 1
    /\ Stored(Sprint(1)).ETag = 1
    /\ get(1).a.Markdown # created[1].newbody

\* C17: every write decides the Gziped flag from the length of the body it
\* is given: the record a create stores and the record a committed edit
\* stores are flagged exactly when that body is at least gzipThreshold bytes
\* long, whatever the flag was before; hence in every state reached a stored
\* record is flagged exactly when the body a get decodes from it is that long.
C17_GzipedIffAtThreshold ==
    [][/\ articles' # articles
            => \A k \in DOMAIN articles' :
                 LET g == getArticleByID(articles', ParseUint(k).n)
                 IN  /\ g.err = "nil"
                     /\ GobDecode(articles'[k]).Gziped
                          = (Len(g.a.Markdown) >= gzipThreshold)
       /\ Len(returned') > Len(returned)
            => LET id == returned'[Len(returned')]
               IN  GobDecode(articles'[Sprint(id)]).Gziped
                     = (Len(created'[id].newbody) >= gzipThreshold)
       /\ \A t \in BagToSet(inflight) :
            (/\ inflight' = inflight (-) SetToBag({t})
             /\ resp'.op = "editPost"
             /\ resp'.status = 303)
            => GobDecode(articles'[Sprint(t.a.ID)]).Gziped
                 = (Len(t.newbody) >= gzipThreshold)]_vars

\* an article created with a body of gzipThreshold bytes (stored compressed)
\* is stored raw after an edit with a short body
C17_Witness ==
    /\ 1 \in DOMAIN created
    /\ created[1].newbody = BodyAt
    /\ 1 \in updated
    /\ Stored(Sprint(1)).Gziped = FALSE
    /\ get(1).a.Markdown = BodyBye

\* the record stored under the ID a response's request names is flagged
\* Gziped and its Markdown is not a gzip stream
RespRecordDamaged ==
    /\ RespID.ok
    /\ resp.idstr \in DOMAIN articles
    /\ Stored(resp.idstr).Gziped
    /\ GzipRead(Stored(resp.idstr).Markdown).err # "nil"

\* C18: a get by aHandler or by the GET branch of editHandler of a record
\* that is flagged Gziped but does not decompress is answered 500: not 404,
\* and not with a page (200 or 304) made from the stored or an empty body.
C18_DamagedRecordIsServerFault ==
    [][(resp'.op \in {"a", "editGet"} /\ resp' # resp /\ RespRecordDamaged')
         => (resp'.status = 500 /\ resp'.a = ZeroArticle)]_vars

\* aHandler answered 500 for a record whose Markdown does not decompress
C18_Witness ==
    /\ resp.op = "a"
    /\ resp.status = 500
    /\ RespRecordDamaged

\* C19: the validator identifies the body: once the GET branch of
\* editHandler has shown an article with some ETag and body, no step leads
\* to a state in which it would show the same ETag with another body, so a
\* client that sends the validator back and is answered 304 holds the body
\* that is stored.
C19_SameRevisionSameBody ==
    [][(resp.op = "editGet" /\ resp.status = 200)
         => LET g == getArticleByID(articles', resp.a.ID)
            IN  (g.err = "nil" /\ g.a.ETag = resp.a.ETag)
                  => g.a.Markdown = resp.a.Markdown]_vars

\* C20: a create never overwrites an article: in every state reached every
\* key of the bucket is the decimal form of an ID from 1 up to the sequence,
\* the record under key k is stored with ID k and read back with ID k, a
\* successful create writes under a key that held no record and leaves the
\* other records as they were, the first successful create returns 1 and
\* each later one an ID above the one before.
C20_CreateNeverOverwrites ==
    [][/\ articles' # articles
            => \A k \in DOMAIN articles' :
                 LET id == ParseUint(k)
                 IN  /\ id.ok
                     /\ id.n \in 1..sequence'
                     /\ Sprint(id.n) = k
                     /\ GobDecode(articles'[k]).ID = id.n
                     /\ getArticleByID(articles', id.n).a.ID = id.n
       /\ Len(returned') > Len(returned)
            => LET id == returned'[Len(returned')]
               IN  /\ Sprint(id) \notin DOMAIN articles
                   /\ Sprint(id) \in DOMAIN articles'
                   /\ \A k \in DOMAIN articles : articles'[k] = articles[k]
                   /\ IF Len(returned) = 0
                      THEN id = 1
                      ELSE id > returned[Len(returned)]]_vars

\* two creates have stored their records under keys "1" and "2", and an
\* edit of the first has been committed in between or after
C20_Witness ==
    /\ returned = <<1, 2>>
    /\ DOMAIN articles = {Sprint(1), Sprint(2)}
    /\ 1 \in updated
    /\ Stored(Sprint(1)).ID = 1
    /\ Stored(Sprint(2)).ID = 2

-----------------------------------------------------------------------------
TypeOK ==
    /\ sequence \in 0..MaxArticles
    /\ DOMAIN articles \subseteq {Sprint(i) : i \in 1..MaxArticles}
    /\ BagCardinality(inflight) <= MaxInFlight

====
